---- MODULE Spec2Model ----
(***************************************************************************)
(* Verification model of the Hathor federation coordinator:                *)
(*   - the ledger contract HathorTransactions.sol,                         *)
(*   - the event handler of HathorService (parseHathorLogs and the pubsub  *)
(*     'message' callback),                                                *)
(*   - the event handler of HathorWallet, its wallet-service operations    *)
(*     (isWalletReady, sendTokensToHathor, wrapData),                      *)
(*   - the limits cache of IAllowTokensV1.getLimits.                       *)
(***************************************************************************)
EXTENDS Integers, Sequences, FiniteSets, TLC

(***************************************************************************)
(* Bounds of the model.                                                    *)
(***************************************************************************)
\* addresses 0..MaxAddr; 0 is NULL_ADDRESS
MaxAddr == 2
\* origin-chain transaction hashes / sidechain tx ids 1..MaxTxId
MaxTxId == 2
\* number of external calls made to the ledger contract in one behaviour
MaxLedgerCalls == 2
\* federator slots: multisigOrder and multisigRequiredSignatures range over
\* 1..MaxFederators, a proposal gathers 0..MaxFederators signatures
MaxFederators == 2
\* proposal ids (the value of a 'hsh' / 'hid' custom data) 1..MaxProposals
MaxProposals == 1
\* deliveries (first deliveries and redeliveries) in one behaviour
MaxDeliveries == 3

\* payloads handed to wrapData fill up to MaxChunks data outputs
MaxChunks == 11

\* token addresses handed to getLimits 1..MaxTokens
MaxTokens == 3
\* the AllowTokens contract allows the tokens 1..MaxAllowed
MaxAllowed == 2
\* getLimits calls in one behaviour
MaxGetLimitsCalls == 4

\* HathorTransactions.sol:11
NULL_ADDRESS == 0

Addresses == 0..MaxAddr
TxIds == 1..MaxTxId
Signatures == {"sigA"}
TxHexes == {"hexA", "hexB"}
\* the default value of a `bytes` storage slot
EmptyBytes == ""

\* The semantic transfer fields the contract functions take.
Transfers ==
  [originalTokenAddress : {"tokenA"},
   transactionHash : TxIds,
   value : {1},
   sender : {"senderA"},
   receiver : {"receiverB"},
   flow : {"MINT"}]

\* keccak256(abi.encodePacked(originalTokenAddress, sender, receiver, value,
\* transactionHash, flow)): the hash is taken as injective, so the id is the
\* packed tuple itself, in the order the contract packs it.
TransactionId(t) ==
  <<t.originalTokenAddress, t.sender, t.receiver, t.value, t.transactionHash, t.flow>>

Ids == {TransactionId(t) : t \in Transfers}

VARIABLES
  \* ---- ledger contract storage (HathorTransactions.sol)
  members,                \* address[] members
  isMember,               \* mapping(address => bool)
  isSigned,               \* mapping(bytes32 => mapping(address => bool))
  isProcessed,            \* mapping(bytes32 => bool)
  isProposed,             \* mapping(bytes32 => bool)
  transactionHex,         \* mapping(bytes32 => bytes)
  transactionSignatures,  \* mapping(bytes32 => Signatures[]); each entry also
                          \* records the caller that pushed it (history)
  proposalSigned,         \* number of ProposalSigned events per (id, member)
  lastCall,               \* the last external call and whether it reverted
  ledgerCalls,            \* number of external calls so far
  \* ---- HathorService (src/unnamed/part_001)
  chainConfig,            \* config.sidechain[0]: multisigOrder,
                          \* multisigRequiredSignatures
  handler,                \* per in-flight message: the run of the 'message'
                          \* callback (its position, locals, ack / nack count)
  delivered,              \* deliveries so far
  signAndPushCalls,       \* per proposal id: signAndPushProposal calls issued
  signAndPushed,          \* proposal ids for which a signAndPushProposal call
                          \* has returned without error
  pushEffects,            \* per tx id: destination pushes that took effect
  \* ---- HathorWallet (src/federator/src/lib/HathorWallet.ts)
  walletHandler,          \* the run of HathorWallet's 'message' callback
  walletDelivered,        \* deliveries so far
  walletPushCalls,        \* signAndPushProposal calls issued
  walletPushed,           \* a signAndPushProposal call has returned without
                          \* error
  \* ---- HathorWallet's wallet-service operations, each on its own
  ready,                  \* one top-level isWalletReady call: its arguments,
                          \* the answers of the wallet service, its outcome
  sender,                 \* one sendTokensToHathor call
  codec,                  \* one wrapData call and the decoding of its outputs
  \* ---- the transaction id the four ledger functions derive
  derived,                \* two derivations: the function, its arguments, the
                          \* id it computed
  \* ---- IAllowTokensV1 (src/federator/src/contracts/IAllowTokensV1.ts)
  mapTokenInfoAndLimits,  \* the per-token cache of getLimits
  getLimitsCall           \* the getLimits call under way or last returned, and
                          \* the contract calls made so far

ledgerVars ==
  <<members, isMember, isSigned, isProcessed, isProposed, transactionHex,
    transactionSignatures, proposalSigned, lastCall, ledgerCalls>>

serviceVars ==
  <<chainConfig, handler, delivered, signAndPushCalls, signAndPushed, pushEffects>>

walletVars == <<walletHandler, walletDelivered, walletPushCalls, walletPushed>>

clientVars == <<ready, sender, codec, derived, mapTokenInfoAndLimits, getLimitsCall>>

vars == <<ledgerVars, serviceVars, walletVars, clientVars>>

(***************************************************************************)
(* HathorTransactions.sol                                                  *)
(***************************************************************************)
\* the owner handed to initialize(); it is the only caller of addMember and
\* removeMember (onlyOwner)
Owner == MaxAddr

\* a call as lastCall records it: the function, msg.sender, the transfer
\* fields, the bool argument (signed / sent; FALSE when there is none) and
\* whether the call went through (FALSE: it reverted)
Call(fn, msgSender, transactionHash, flag, ok) ==
  [fn |-> fn, sender |-> msgSender, transactionHash |-> transactionHash,
   flag |-> flag, ok |-> ok]

NoCall == Call("none", NULL_ADDRESS, 0, FALSE, TRUE)

\* member lists initialize() accepts: no duplicates, no NULL_ADDRESS
InitialMembers ==
  {s \in UNION {[1..n -> Addresses \ {NULL_ADDRESS}] : n \in 0..MaxAddr} :
     \A i, j \in DOMAIN s : i # j => s[i] # s[j]}

initialize ==
  /\ members \in InitialMembers
  /\ isMember = [a \in Addresses |-> \E i \in DOMAIN members : members[i] = a]
  /\ isSigned = [id \in Ids |-> [a \in Addresses |-> FALSE]]
  /\ isProcessed = [id \in Ids |-> FALSE]
  /\ isProposed = [id \in Ids |-> FALSE]
  /\ transactionHex = [id \in Ids |-> EmptyBytes]
  /\ transactionSignatures = [id \in Ids |-> <<>>]
  /\ proposalSigned = [id \in Ids |-> [a \in Addresses |-> 0]]
  /\ lastCall = NoCall
  /\ ledgerCalls = 0

\* the four functions that derive a transaction id
LedgerFunctions ==
  {"getTransactionId", "sendTransactionProposal", "updateSignatureState",
   "updateTransactionState"}

\* variant: getTransactionId packs its arguments in the order it declares them
encodePacked_AsDeclared(fn, t) ==
  IF fn = "getTransactionId"
  THEN <<t.originalTokenAddress, t.transactionHash, t.value, t.sender,
         t.receiver, t.flow>>
  ELSE <<t.originalTokenAddress, t.sender, t.receiver, t.value,
         t.transactionHash, t.flow>>

\* keccak256(abi.encodePacked(...)) as each function writes it out for itself
\* (the hash taken as injective: the id is the packed tuple)
encodePacked(fn, t) ==
  CASE fn = "getTransactionId" ->
         <<t.originalTokenAddress, t.sender, t.receiver, t.value,
           t.transactionHash, t.flow>>
    [] fn = "sendTransactionProposal" ->
         <<t.originalTokenAddress, t.sender, t.receiver, t.value,
           t.transactionHash, t.flow>>
    [] fn = "updateSignatureState" ->
         <<t.originalTokenAddress, t.sender, t.receiver, t.value,
           t.transactionHash, t.flow>>
    [] fn = "updateTransactionState" ->
         <<t.originalTokenAddress, t.sender, t.receiver, t.value,
           t.transactionHash, t.flow>>

\* arguments of the four functions with two values for every field; the
\* fields share their values, so that two packings in different orders of
\* the same arguments differ
AllTransfers ==
  [originalTokenAddress : {1, 2}, transactionHash : {1, 2}, value : {1, 2},
   sender : {1, 2}, receiver : {1, 2}, flow : {1, 2}]

NoDerivations == <<>>

\* two of the functions, each on its own arguments, derive their ids (the
\* derivation reads no storage: it is followed on the ledger as initialized)
DeriveTransactionId ==
  /\ derived = NoDerivations
  /\ ledgerCalls = 0
  /\ \E f1, f2 \in LedgerFunctions, t1, t2 \in AllTransfers :
       derived' = <<[fn |-> f1, args |-> t1, id |-> encodePacked(f1, t1)],
                    [fn |-> f2, args |-> t2, id |-> encodePacked(f2, t2)]>>
  /\ UNCHANGED <<ledgerVars, serviceVars, walletVars, ready, sender, codec,
                 mapTokenInfoAndLimits, getLimitsCall>>

\* variant: the modifier lets every caller through
onlyMember_Anyone(msgSender) == TRUE

\* modifier onlyMember
onlyMember(msgSender) == isMember[msgSender]

\* a reverted call changes no storage
Revert ==
  UNCHANGED <<members, isMember, isSigned, isProcessed, isProposed,
              transactionHex, transactionSignatures, proposalSigned>>

\* getTransactionId: returns the id, writes nothing
getTransactionId(msgSender, t) ==
  /\ lastCall' = Call("getTransactionId", msgSender, t.transactionHash, FALSE,
                      onlyMember(msgSender))
  /\ Revert

\* onlyMember and the require of sendTransactionProposal
canSendTransactionProposal(msgSender, t) ==
  /\ onlyMember(msgSender)
  /\ isProposed[encodePacked("sendTransactionProposal", t)] = FALSE

sendTransactionProposal(msgSender, t, txHex) ==
  LET transactionId == encodePacked("sendTransactionProposal", t)
      ok == canSendTransactionProposal(msgSender, t)
  IN /\ lastCall' = Call("sendTransactionProposal", msgSender,
                         t.transactionHash, FALSE, ok)
     /\ IF ok
        THEN /\ transactionHex' = [transactionHex EXCEPT ![transactionId] = txHex]
             /\ isProposed' = [isProposed EXCEPT ![transactionId] = TRUE]
             /\ UNCHANGED <<members, isMember, isSigned, isProcessed,
                            transactionSignatures, proposalSigned>>
        ELSE Revert

\* variant: the require on isSigned left out
canUpdateSignatureState_NoRequire(msgSender, t) ==
  onlyMember(msgSender)

\* onlyMember and the require of updateSignatureState
canUpdateSignatureState(msgSender, t) ==
  /\ onlyMember(msgSender)
  /\ isSigned[encodePacked("updateSignatureState", t)][msgSender] = FALSE

updateSignatureState(msgSender, t, signature, signed) ==
  LET transactionId == encodePacked("updateSignatureState", t)
      ok == canUpdateSignatureState(msgSender, t)
  IN /\ lastCall' = Call("updateSignatureState", msgSender,
                         t.transactionHash, signed, ok)
     /\ IF ok
        THEN /\ isSigned' = [isSigned EXCEPT ![transactionId][msgSender] = signed]
             /\ transactionSignatures' =
                  [transactionSignatures EXCEPT ![transactionId] =
                     Append(@, [signature |-> signature, by |-> msgSender])]
             /\ proposalSigned' =
                  [proposalSigned EXCEPT ![transactionId][msgSender] = @ + 1]
             /\ UNCHANGED <<members, isMember, isProcessed, isProposed,
                            transactionHex>>
        ELSE Revert

\* variant: the require on isProcessed left out
canUpdateTransactionState_NoRequire(msgSender, t) ==
  onlyMember(msgSender)

\* onlyMember and the require of updateTransactionState
canUpdateTransactionState(msgSender, t) ==
  /\ onlyMember(msgSender)
  /\ isProcessed[encodePacked("updateTransactionState", t)] = FALSE

updateTransactionState(msgSender, t, sent) ==
  LET transactionId == encodePacked("updateTransactionState", t)
      ok == canUpdateTransactionState(msgSender, t)
  IN /\ lastCall' = Call("updateTransactionState", msgSender,
                         t.transactionHash, sent, ok)
     /\ IF ok
        THEN /\ isProcessed' = [isProcessed EXCEPT ![transactionId] = sent]
             /\ UNCHANGED <<members, isMember, isSigned, isProposed,
                            transactionHex, transactionSignatures, proposalSigned>>
        ELSE Revert

addMember(msgSender, newMember) ==
  LET ok == /\ msgSender = Owner
            /\ newMember # NULL_ADDRESS
            /\ ~isMember[newMember]
  IN /\ lastCall' = Call("addMember", msgSender, 0, FALSE, ok)
     /\ IF ok
        THEN /\ isMember' = [isMember EXCEPT ![newMember] = TRUE]
             /\ members' = Append(members, newMember)
             /\ UNCHANGED <<isSigned, isProcessed, isProposed, transactionHex,
                            transactionSignatures, proposalSigned>>
        ELSE Revert

\* the loop of removeMember: the slot holding oldMember (if it is not the last
\* one) takes the last element; then the array is popped
removeFromMembers(oldMember) ==
  LET n == Len(members)
      hit == {i \in 1..(n - 1) : members[i] = oldMember}
      swapped == IF hit = {}
                 THEN members
                 ELSE LET i == CHOOSE k \in hit : \A l \in hit : k <= l
                      IN [members EXCEPT ![i] = members[n]]
  IN SubSeq(swapped, 1, n - 1)

removeMember(msgSender, oldMember) ==
  LET ok == /\ msgSender = Owner
            /\ oldMember # NULL_ADDRESS
            /\ isMember[oldMember]
            /\ Len(members) > 1
  IN /\ lastCall' = Call("removeMember", msgSender, 0, FALSE, ok)
     /\ IF ok
        THEN /\ isMember' = [isMember EXCEPT ![oldMember] = FALSE]
             /\ members' = removeFromMembers(oldMember)
             /\ UNCHANGED <<isSigned, isProcessed, isProposed, transactionHex,
                            transactionSignatures, proposalSigned>>
        ELSE Revert

\* an external call to the contract, by any caller with any arguments
LedgerCall(call) ==
  /\ ledgerCalls < MaxLedgerCalls
  /\ ledgerCalls' = ledgerCalls + 1
  /\ call
  /\ UNCHANGED <<serviceVars, walletVars, clientVars>>

GetTransactionIdCall ==
  \E msgSender \in Addresses, t \in Transfers :
    LedgerCall(getTransactionId(msgSender, t))

SendTransactionProposalCall ==
  \E msgSender \in Addresses, t \in Transfers, txHex \in TxHexes :
    LedgerCall(sendTransactionProposal(msgSender, t, txHex))

UpdateSignatureStateCall ==
  \E msgSender \in Addresses, t \in Transfers,
     signature \in Signatures, signed \in BOOLEAN :
    LedgerCall(updateSignatureState(msgSender, t, signature, signed))

UpdateTransactionStateCall ==
  \E msgSender \in Addresses, t \in Transfers, sent \in BOOLEAN :
    LedgerCall(updateTransactionState(msgSender, t, sent))

AddMemberCall ==
  \E msgSender \in Addresses, a \in Addresses :
    LedgerCall(addMember(msgSender, a))

RemoveMemberCall ==
  \E msgSender \in Addresses, a \in Addresses :
    LedgerCall(removeMember(msgSender, a))

(***************************************************************************)
(* HathorService: the queue events and the errors the handler can meet     *)
(***************************************************************************)
\* The handler keeps no state between runs or across runs: everything it
\* writes is local to one run, and what runs share is the brokers and the
\* ledger behind them. Spec follows the runs one after the other;
\* SpecConcurrent follows two runs of the callback side by side:
\* subscription.on('message', async ...) registers a listener whose promise
\* the emitter does not wait for, so the next 'message' event can be emitted
\* while a run is suspended at an await.
Handlers == {1}
ConcurrentHandlers == {1, 2}
Proposals == 1..MaxProposals

\* the account this federator calls the ledger contract from (a member of
\* the federation)
FederatorAddress == 1

\* A queue message. `malformed`: message.data is not a JSON document.
\* hex / sig / addr: tx.haveCustomData of that tag. customDataType:
\* tx.getCustomDataType(). target: tx.getCustomData(customDataType), the id of
\* the proposal a 'hex' or 'sig' transaction is about. hasTokenData:
\* tx.getCustomTokenData() is not empty. Fields the handler cannot read on the
\* path an event takes hold one representative value.
AllEvents ==
  [malformed : BOOLEAN,
   type : {"wallet:new-tx", "wallet:state_update"},
   tx_id : TxIds,
   hex : BOOLEAN, sig : BOOLEAN, addr : BOOLEAN,
   customDataType : {"hsh", "hid", "none"},
   target : Proposals,
   hasTokenData : BOOLEAN]

Representative(e) ==
  /\ (e.malformed => e.type = "wallet:new-tx")
  /\ (e.malformed \/ e.type # "wallet:new-tx" =>
        /\ e.tx_id = 1
        /\ ~e.hex /\ ~e.sig /\ ~e.addr)
  /\ (~e.hex /\ ~e.sig => e.customDataType = "none")
  /\ (e.customDataType = "none" => e.target = 1)
  /\ (~e.addr => ~e.hasTokenData)

Events == {e \in AllEvents : Representative(e)}

NoMessage ==
  [malformed |-> FALSE, type |-> "none", tx_id |-> 1, hex |-> FALSE,
   sig |-> FALSE, addr |-> FALSE, customDataType |-> "none", target |-> 1,
   hasTokenData |-> FALSE]

\* Error messages are sequences of pieces of text; a piece of one character
\* is written as that character.
InputsSpent ==
  <<"Invalid transaction", ".",
    " At least one of your inputs has already been spent", ".">>

\* the upstream messages a HathorException raised by a broker may carry
UpstreamMessages ==
  {<<"Invalid tx">>,
   <<"Transaction already exists">>,
   <<"400 - ", "Transaction already exists">>,
   InputsSpent,
   <<"Wallet not ready">>}

\* The value thrown. type "HathorException": error instanceof HathorException;
\* hasOriginal = FALSE: the exception was built with an undefined original
\* message (HathorWallet.ts:322 passes response.data.error, an optional field).
ErrorValue(type, hasOriginal, original) ==
  [type |-> type, hasOriginal |-> hasOriginal, original |-> original]

NoError == ErrorValue("none", FALSE, <<>>)
\* any error that is not a HathorException (SyntaxError, TypeError, Error)
PlainError == ErrorValue("Error", FALSE, <<>>)
HathorException(original) == ErrorValue("HathorException", TRUE, original)
HathorExceptionNoOriginal == ErrorValue("HathorException", FALSE, <<>>)

\* What an awaited broker call `op` can throw: any plain error, a
\* HathorException carrying an upstream message and, for signAndPushProposal,
\* a HathorException built from a wallet response without an `error` field
\* (HathorWallet.ts:18 and 320-323).
BrokerErrors(op) ==
  {PlainError}
    \cup {HathorException(o) : o \in UpstreamMessages}
    \cup (IF op = "signAndPushProposal" THEN {HathorExceptionNoOriginal} ELSE {})

\* HathorException.getOriginalMessage()
getOriginalMessage(error) == error.original

\* ProposalComponents returned by getSignaturesToPush; the signatures are
\* numbered 1..n
Components(hex, n) == [hex |-> hex, signatures |-> [i \in 1..n |-> i]]
NoComponents == [hex |-> "", signatures |-> <<>>]

\* a broker call as the run records it
BrokerCall(op, broker, txId, hex, signatures) ==
  [op |-> op, broker |-> broker, txId |-> txId, hex |-> hex,
   signatures |-> signatures]

\* tx.getCustomData('hex')
TxHexOf(event) == "hexA"

\* the transfer an inbound ('addr') transaction stands for
TransferOf(event) ==
  [originalTokenAddress |-> "tokenA", transactionHash |-> event.tx_id,
   value |-> 1, sender |-> "senderA", receiver |-> "receiverB",
   flow |-> "MINT"]

IdleHandler ==
  [pc |-> "idle", message |-> NoMessage, path |-> "none", broker |-> "none",
   dataType |-> "none", confirmed |-> "unset", components |-> NoComponents,
   result |-> "none", calls |-> <<>>, response |-> "none", error |-> NoError,
   acks |-> 0, nacks |-> 0, escaped |-> FALSE]

(***************************************************************************)
(* HathorService.listenToPubSubEventQueue: the 'message' callback          *)
(***************************************************************************)
\* message.ack() / message.nack(), after which the callback returns
ack(r) == [r EXCEPT !.acks = @ + 1, !.pc = "done"]
nack(r) == [r EXCEPT !.nacks = @ + 1, !.pc = "done"]

\* variant: the callback without its `return` after message.ack()
onResponse_NoReturn(r, response) ==
  LET r1 == [r EXCEPT !.response = response]
  IN IF response = "true" THEN nack(ack(r1)) ELSE nack(r1)

\* lines 74-80: parseHathorLogs returned `response` ("true", "false" or
\* "undefined")
onResponse(r, response) ==
  LET r1 == [r EXCEPT !.response = response]
  IN IF response = "true" THEN ack(r1) ELSE nack(r1)

\* lines 21-25; AnyChar is the regular expression's `.`
AnyChar == "<any character>"

\* variant: the list without /Invalid tx/
nonRetriableErrors_TwoPatterns ==
  <<<<"Invalid transaction", AnyChar,
      " At least one of your inputs has already been spent", AnyChar>>,
    <<"Transaction already exists">>>>

nonRetriableErrors ==
  <<<<"Invalid transaction", AnyChar,
      " At least one of your inputs has already been spent", AnyChar>>,
    <<"Transaction already exists">>,
    <<"Invalid tx">>>>

\* originalError.match(rgxError): the pattern is found anywhere in the text
match(originalError, rgxError) ==
  \E offset \in 0..(Len(originalError) - Len(rgxError)) :
    \A i \in 1..Len(rgxError) :
      \/ rgxError[i] = AnyChar /\ Len(originalError[offset + i]) = 1
      \/ rgxError[i] = originalError[offset + i]

\* lines 88-94
isNonRetriable(originalError) ==
  \E index \in 1..Len(nonRetriableErrors) :
    match(originalError, nonRetriableErrors[index])

\* lines 81-103: the catch block. With an undefined original message
\* originalError.match(...) throws a TypeError out of the catch block: the
\* callback ends with neither ack nor nack.
onError(r, error) ==
  LET r1 == [r EXCEPT !.error = error]
  IN IF error.type = "HathorException"
     THEN IF ~error.hasOriginal
          THEN [r1 EXCEPT !.escaped = TRUE, !.pc = "done"]
          ELSE IF isNonRetriable(getOriginalMessage(error))
               THEN ack(r1)
               ELSE nack(r1)
     ELSE nack(r1)

(***************************************************************************)
(* HathorService.parseHathorLogs                                           *)
(***************************************************************************)
\* variant: the type of the event is not looked at
isNewTx_Always(event) == TRUE

\* line 118 (and HathorWallet.ts:137): event.type !== 'wallet:new-tx' is false
isNewTx(event) == event.type = "wallet:new-tx"

\* tx.haveCustomData(tag)
haveCustomData(tx, tag) ==
  CASE tag = "hex" -> tx.hex
    [] tag = "sig" -> tx.sig
    [] tag = "addr" -> tx.addr

\* lines 205-213: the broker, or "undefined" when the switch falls through
getBrokerAndDataType(tx) ==
  CASE tx.customDataType = "hsh" -> "EvmBroker"
    [] tx.customDataType = "hid" -> "HathorBroker"
    [] OTHER -> "undefined"

\* the handler issues a broker call and suspends at its await
await(r, op, txId, hex, signatures) ==
  [r EXCEPT !.pc = op,
            !.calls = Append(@, BrokerCall(op, r.broker, txId, hex, signatures))]

\* line 155
isSignaturePath(tx) ==
  /\ haveCustomData(tx, "sig")
  /\ chainConfig.multisigOrder >= chainConfig.multisigRequiredSignatures

\* lines 74 and 117-183: JSON.parse, then parseHathorLogs up to its first
\* await (or to its return)
parseHathorLogs(r) ==
  LET event == r.message
      tx == event
      selected(path) ==
        [r EXCEPT !.path = path, !.broker = getBrokerAndDataType(tx),
                  !.dataType = tx.customDataType]
  IN IF event.malformed
     THEN onError(r, PlainError)
     ELSE IF ~isNewTx(event)
     THEN onResponse(r, "true")
     ELSE IF haveCustomData(tx, "hex")
     THEN IF getBrokerAndDataType(tx) = "undefined"
          THEN onError([r EXCEPT !.path = "proposal"], PlainError)
          ELSE await(selected("proposal"), "isTxConfirmed", tx.tx_id, "", <<>>)
     ELSE IF isSignaturePath(tx)
     THEN IF getBrokerAndDataType(tx) = "undefined"
          THEN onError([r EXCEPT !.path = "signature"], PlainError)
          ELSE await(selected("signature"), "isTxConfirmed", tx.tx_id, "", <<>>)
     ELSE IF haveCustomData(tx, "addr")
     THEN await([r EXCEPT !.path = "transfer", !.broker = "HathorBroker"],
                "isTxConfirmed", tx.tx_id, "", <<>>)
     ELSE onResponse(r, "undefined")

\* variant: the `if (!confirmed) return false` guards left out
afterIsTxConfirmed_NoGate(r, confirmed) ==
  LET tx == r.message
      r1 == [r EXCEPT !.confirmed = IF confirmed THEN "true" ELSE "false"]
  IN CASE r.path = "proposal" ->
            await(r1, "sendMySignaturesToProposal", tx.target, TxHexOf(tx), <<>>)
       [] r.path = "signature" ->
            await(r1, "getSignaturesToPush", tx.target, "", <<>>)
       [] r.path = "transfer" ->
            IF ~tx.hasTokenData
            THEN onError(r1, PlainError)
            ELSE await(r1, "sendTokensFromHathor", tx.tx_id, "", <<>>)

\* lines 145-149, 159-165, 183-197: isTxConfirmed returned `confirmed`
afterIsTxConfirmed(r, confirmed) ==
  LET tx == r.message
      r1 == [r EXCEPT !.confirmed = IF confirmed THEN "true" ELSE "false"]
  IN IF ~confirmed
     THEN onResponse(r1, "false")
     ELSE CASE r.path = "proposal" ->
                 await(r1, "sendMySignaturesToProposal", tx.target,
                       TxHexOf(tx), <<>>)
            [] r.path = "signature" ->
                 await(r1, "getSignaturesToPush", tx.target, "", <<>>)
            [] r.path = "transfer" ->
                 \* tokenData = tx.getCustomTokenData()[0]; tokenData.value
                 IF ~tx.hasTokenData
                 THEN onError(r1, PlainError)
                 ELSE await(r1, "sendTokensFromHathor", tx.tx_id, "", <<>>)

\* variant: line 167 comparing with <= instead of <
afterGetSignaturesToPush_OffByOne(r, components) ==
  LET r1 == [r EXCEPT !.components = components]
  IN IF Len(components.signatures) <= chainConfig.multisigRequiredSignatures
     THEN onResponse(r1, "false")
     ELSE await(r1, "signAndPushProposal", r.message.target, components.hex,
                components.signatures)

\* lines 165-174: getSignaturesToPush returned `components`
afterGetSignaturesToPush(r, components) ==
  LET r1 == [r EXCEPT !.components = components]
  IN IF Len(components.signatures) < chainConfig.multisigRequiredSignatures
     THEN onResponse(r1, "false")
     ELSE await(r1, "signAndPushProposal", r.message.target, components.hex,
                components.signatures)

\* lines 190-201: sendTokensFromHathor returned `result`
afterSendTokensFromHathor(r, result) ==
  LET r1 == [r EXCEPT !.result = IF result THEN "true" ELSE "false"]
  IN IF ~result
     THEN onError(r1, HathorException(<<"Invalid tx">>))
     ELSE onResponse(r1, "true")

(***************************************************************************)
(* The steps of a handler run: the queue, the handler, and the broker      *)
(* answering the call the handler awaits                                   *)
(***************************************************************************)
ledgerUnchanged == UNCHANGED ledgerVars

\* the subscription emits 'message' with a message of any content
Deliver(h) ==
  /\ handler[h].pc = "idle"
  /\ delivered < MaxDeliveries
  /\ \E event \in Events :
       handler' = [handler EXCEPT ![h] =
                     [IdleHandler EXCEPT !.pc = "received", !.message = event]]
  /\ delivered' = delivered + 1
  /\ UNCHANGED <<chainConfig, signAndPushCalls, signAndPushed, pushEffects,
               walletVars, clientVars>>
  /\ ledgerUnchanged

\* the callback runs up to its first await
HandlerStart(h) ==
  /\ handler[h].pc = "received"
  /\ handler' = [handler EXCEPT ![h] = parseHathorLogs(handler[h])]
  /\ UNCHANGED <<chainConfig, delivered, signAndPushCalls, signAndPushed, pushEffects,
               walletVars, clientVars>>
  /\ ledgerUnchanged

IsTxConfirmedReturns(h) ==
  /\ handler[h].pc = "isTxConfirmed"
  /\ \E confirmed \in BOOLEAN :
       handler' = [handler EXCEPT ![h] = afterIsTxConfirmed(handler[h], confirmed)]
  /\ UNCHANGED <<chainConfig, delivered, signAndPushCalls, signAndPushed, pushEffects,
               walletVars, clientVars>>
  /\ ledgerUnchanged

SendMySignaturesToProposalReturns(h) ==
  /\ handler[h].pc = "sendMySignaturesToProposal"
  /\ handler' = [handler EXCEPT ![h] = onResponse(handler[h], "true")]
  /\ UNCHANGED <<chainConfig, delivered, signAndPushCalls, signAndPushed, pushEffects,
               walletVars, clientVars>>
  /\ ledgerUnchanged

GetSignaturesToPushReturns(h) ==
  /\ handler[h].pc = "getSignaturesToPush"
  /\ \E hex \in TxHexes, n \in 0..MaxFederators :
       LET r == afterGetSignaturesToPush(handler[h], Components(hex, n))
       IN /\ handler' = [handler EXCEPT ![h] = r]
          /\ signAndPushCalls' =
               IF r.pc = "signAndPushProposal"
               \* counted up to MaxDeliveries, which the calls of MaxDeliveries
               \* deliveries do not exceed
               THEN [signAndPushCalls EXCEPT ![r.message.target] =
                       IF @ < MaxDeliveries THEN @ + 1 ELSE @]
               ELSE signAndPushCalls
  /\ UNCHANGED <<chainConfig, delivered, signAndPushed, pushEffects,
               walletVars, clientVars>>
  /\ ledgerUnchanged

SignAndPushProposalReturns(h) ==
  /\ handler[h].pc = "signAndPushProposal"
  /\ handler' = [handler EXCEPT ![h] = onResponse(handler[h], "true")]
  /\ signAndPushed' = signAndPushed \cup {handler[h].message.target}
  /\ UNCHANGED <<chainConfig, delivered, signAndPushCalls, pushEffects,
               walletVars, clientVars>>
  /\ ledgerUnchanged

\* HathorBroker.sendTokensFromHathor. The destination push goes through the
\* ledger's state transition: it takes effect (pushed = TRUE) only if
\* updateTransactionState(..., sent = true) is accepted.
sendTokensFromHathor(h, pushed) ==
  LET t == TransferOf(handler[h].message)
  IN IF pushed
     THEN /\ canUpdateTransactionState(FederatorAddress, t)
          /\ updateTransactionState(FederatorAddress, t, TRUE)
          /\ pushEffects' = [pushEffects EXCEPT ![t.transactionHash] = @ + 1]
          /\ UNCHANGED ledgerCalls
     ELSE /\ UNCHANGED pushEffects
          /\ ledgerUnchanged

SendTokensFromHathorReturns(h) ==
  /\ handler[h].pc = "sendTokensFromHathor"
  /\ \E result \in BOOLEAN :
       /\ sendTokensFromHathor(h, result)
       /\ handler' = [handler EXCEPT ![h] =
                        afterSendTokensFromHathor(handler[h], result)]
  /\ UNCHANGED <<chainConfig, delivered, signAndPushCalls, signAndPushed,
               walletVars, clientVars>>

\* the push took effect but its result never reached the handler: the awaited
\* call rejects (a timeout, a dropped connection)
SendTokensFromHathorLost(h) ==
  /\ handler[h].pc = "sendTokensFromHathor"
  /\ sendTokensFromHathor(h, TRUE)
  /\ handler' = [handler EXCEPT ![h] = onError(handler[h], PlainError)]
  /\ UNCHANGED <<chainConfig, delivered, signAndPushCalls, signAndPushed,
               walletVars, clientVars>>

AwaitedCalls ==
  {"isTxConfirmed", "sendMySignaturesToProposal", "getSignaturesToPush",
   "signAndPushProposal", "sendTokensFromHathor"}

\* the awaited broker call rejects
BrokerThrows(h) ==
  /\ handler[h].pc \in AwaitedCalls
  /\ \E error \in BrokerErrors(handler[h].pc) :
       handler' = [handler EXCEPT ![h] = onError(handler[h], error)]
  /\ UNCHANGED <<chainConfig, delivered, signAndPushCalls, signAndPushed, pushEffects,
               walletVars, clientVars>>
  /\ ledgerUnchanged

\* an acknowledged message leaves the subscription
Settle(h) ==
  /\ handler[h].pc = "done"
  /\ handler[h].acks > 0
  /\ handler' = [handler EXCEPT ![h] = IdleHandler]
  /\ UNCHANGED <<chainConfig, delivered, signAndPushCalls, signAndPushed, pushEffects,
               walletVars, clientVars>>
  /\ ledgerUnchanged

\* a message that was nacked, or whose handler ended without acknowledging
\* it (ack deadline), is delivered again
Redeliver(h) ==
  /\ handler[h].pc = "done"
  /\ handler[h].acks = 0
  /\ delivered < MaxDeliveries
  /\ handler' = [handler EXCEPT ![h] =
                   [IdleHandler EXCEPT !.pc = "received",
                                       !.message = handler[h].message]]
  /\ delivered' = delivered + 1
  /\ UNCHANGED <<chainConfig, signAndPushCalls, signAndPushed, pushEffects,
               walletVars, clientVars>>
  /\ ledgerUnchanged

\* Redeliver with no limit on the number of deliveries
RedeliverAlways(h) ==
  /\ handler[h].pc = "done"
  /\ handler[h].acks = 0
  /\ handler' = [handler EXCEPT ![h] =
                   [IdleHandler EXCEPT !.pc = "received",
                                       !.message = handler[h].message]]
  /\ UNCHANGED <<chainConfig, delivered, signAndPushCalls, signAndPushed,
                 pushEffects, walletVars, clientVars>>
  /\ ledgerUnchanged

(***************************************************************************)
(* HathorWallet (src/federator/src/lib/HathorWallet.ts): isWalletReady     *)
(***************************************************************************)
\* lines 43-45
WALLET_STATUS_CONNECTING == 1
WALLET_STATUS_SYNCING == 2
WALLET_STATUS_READY == 3

\* lines 404 and 426: a call with retry > MaxRetries polls no more
MaxRetries == 3

\* An answer of the wallet service to GET /wallet/status: the request is
\* rejected, or it carries response.data {statusCode, success, statusMessage}
\* (statusCode 0: a code that is none of the three above). startRejects:
\* the POST /start that follows a stopped answer is rejected.
AllStatusResponses ==
  [rejects : BOOLEAN,
   statusCode : {0, WALLET_STATUS_CONNECTING, WALLET_STATUS_SYNCING,
                 WALLET_STATUS_READY},
   success : BOOLEAN,
   statusMessage : {"", "Wallet is not ready"},
   startRejects : BOOLEAN]

looksStopped(response) ==
  ~response.success /\ response.statusMessage = ""

\* Fields isWalletReady does not read for an answer hold one value: nothing
\* of a rejected request, and neither success nor statusMessage once the
\* statusCode is one of the three known codes.
StatusResponses ==
  {x \in AllStatusResponses :
     /\ (x.rejects \/ x.statusCode # 0 => x.success /\ x.statusMessage = "")
     /\ (x.rejects => x.statusCode = 0)
     /\ (x.startRejects => ~x.rejects /\ x.statusCode = 0 /\ looksStopped(x))}

\* a request isWalletReady makes: GET /wallet/status ("status"), POST /start
\* ("start"), both for the wallet `multisig` selects, or delay(3000)
\* ("delay")
WalletCall(op, multisig) == [op |-> op, multisig |-> multisig]

\* what one isWalletReady call amounts to: result is "true", "false",
\* "undefined" (the function falls off its end) or "throws"; calls are the
\* requests it made, in order
ReadyOutcome(result, calls) == [result |-> result, calls |-> calls]

Polls(outcome) == Len(SelectSeq(outcome.calls, LAMBDA c : c.op = "status"))
Delays(outcome) == Len(SelectSeq(outcome.calls, LAMBDA c : c.op = "delay"))
Starts(outcome) == Len(SelectSeq(outcome.calls, LAMBDA c : c.op = "start"))

\* return this.isWalletReady(multisig, ++retry): the outcome of the
\* recursive call, after the requests made before it
AfterRetry(before, inner) ==
  ReadyOutcome(inner.result, before \o inner.calls)

\* variant: line 404 comparing with >= instead of >
budgetExceeded_OneEarly(retry) == retry >= MaxRetries

\* variant: line 404 allowing one more poll
budgetExceeded_OneLate(retry) == retry > MaxRetries + 1

\* line 404
budgetExceeded(retry) == retry > MaxRetries

\* variant: the start request sent for the other wallet
startWallet_OtherWallet(multisig) == WalletCall("start", ~multisig)

\* lines 430 and 439-456: the request of startWallet(multisig)
startWallet(multisig) == WalletCall("start", multisig)

\* lines 402-437; responses: the answers the wallet service gives to the
\* status polls of this call, in order
RECURSIVE isWalletReady(_, _, _)
isWalletReady(multisig, retry, responses) ==
  IF budgetExceeded(retry)
  THEN ReadyOutcome("false", <<>>)
  ELSE LET response == Head(responses)
           poll == <<WalletCall("status", multisig)>>
           delay == <<WalletCall("delay", multisig)>>
       IN IF response.rejects
          THEN ReadyOutcome("throws", poll)
          ELSE IF response.statusCode = WALLET_STATUS_READY
          THEN ReadyOutcome("true", poll)
          ELSE IF response.statusCode \in
                    {WALLET_STATUS_CONNECTING, WALLET_STATUS_SYNCING}
          THEN AfterRetry(poll \o delay,
                          isWalletReady(multisig, retry + 1, Tail(responses)))
          ELSE IF looksStopped(response)
          THEN IF response.startRejects
               THEN ReadyOutcome("throws", poll \o <<startWallet(multisig)>>)
               ELSE AfterRetry(poll \o <<startWallet(multisig)>> \o delay,
                               isWalletReady(multisig, retry + 1,
                                             Tail(responses)))
          ELSE ReadyOutcome("undefined", poll)

\* the answers one top-level call can consume
StatusSequences == [1..MaxRetries -> StatusResponses]

\* every way a top-level isWalletReady call can end
ReadyOutcomes ==
  UNION {{isWalletReady(multisig, 1, responses) :
            responses \in StatusSequences} : multisig \in BOOLEAN}

(***************************************************************************)
(* One top-level isWalletReady call against a wallet service giving any    *)
(* answers                                                                 *)
(***************************************************************************)
\* the answers to a status poll, with every combination of the fields
\* isWalletReady can read
ProbeResponses ==
  {x \in AllStatusResponses :
     /\ (x.rejects => x.statusCode = 0 /\ x.success /\ x.statusMessage = "")
     /\ (x.startRejects => ~x.rejects /\ x.statusCode = 0 /\ looksStopped(x))}

\* one answer more than a call can consume
ProbeSequences == [1..(MaxRetries + 1) -> ProbeResponses]

NoOutcome == ReadyOutcome("none", <<>>)

IdleReady ==
  [pc |-> "idle", multisig |-> FALSE, responses |-> <<>>, outcome |-> NoOutcome]

\* isWalletReady(multisig) is called (retry = 1) and runs to its end
IsWalletReadyRuns ==
  /\ ready.pc = "called"
  /\ ready' = [ready EXCEPT
                 !.pc = "returned",
                 !.outcome = isWalletReady(ready.multisig, 1, ready.responses)]
  /\ UNCHANGED <<sender, codec, derived, mapTokenInfoAndLimits, getLimitsCall>>
  /\ UNCHANGED <<ledgerVars, serviceVars, walletVars>>

(***************************************************************************)
(* HathorWallet.sendTokensToHathor                                         *)
(***************************************************************************)
\* ready: the outcomes of the isWalletReady calls made so far; calls: the
\* requests sent to the wallet service after them
IdleSender == [pc |-> "idle", ready |-> <<>>, calls |-> <<>>]

\* lines 72-78: the call starts; a federator that is not the first one
\* returns at once
SendTokensToHathorCalled ==
  /\ sender.pc = "idle"
  /\ sender' = [sender EXCEPT
                  !.pc = IF chainConfig.multisigOrder > 1
                         THEN "returned"
                         ELSE "isWalletReady(true)"]
  /\ UNCHANGED <<ready, codec, derived, mapTokenInfoAndLimits, getLimitsCall>>
  /\ UNCHANGED <<ledgerVars, serviceVars, walletVars>>

\* lines 78-81: an isWalletReady call ended; what it returned is not looked
\* at
SenderIsWalletReadyEnds ==
  /\ sender.pc \in {"isWalletReady(true)", "isWalletReady(false)"}
  /\ \E outcome \in ReadyOutcomes :
       LET s1 == [sender EXCEPT !.ready = Append(@, outcome)]
       IN sender' =
            IF outcome.result = "throws"
            THEN [s1 EXCEPT !.pc = "threw"]
            ELSE IF sender.pc = "isWalletReady(true)"
            THEN [s1 EXCEPT !.pc = "isWalletReady(false)"]
            ELSE [s1 EXCEPT !.pc = "sendTransactionProposal",
                            !.calls = Append(@, "mint-tokens")]
  /\ UNCHANGED <<ready, codec, derived, mapTokenInfoAndLimits, getLimitsCall>>
  /\ UNCHANGED <<ledgerVars, serviceVars, walletVars>>

\* lines 81-82 and 206-231: the mint proposal was created; broadcastProposal
\* wraps its hex (wrapData asks for the multisig address)
SenderSendTransactionProposalReturns ==
  /\ sender.pc = "sendTransactionProposal"
  /\ sender' = [sender EXCEPT !.pc = "getMultiSigAddress"]
  /\ UNCHANGED <<ready, codec, derived, mapTokenInfoAndLimits, getLimitsCall>>
  /\ UNCHANGED <<ledgerVars, serviceVars, walletVars>>

\* lines 241-246 and 369-372: wrapData returned; the outputs are sent with
\* POST /wallet/send-tx
SenderGetMultiSigAddressReturns ==
  /\ sender.pc = "getMultiSigAddress"
  /\ sender' = [sender EXCEPT !.pc = "broadcastDataToMultisig",
                              !.calls = Append(@, "send-tx")]
  /\ UNCHANGED <<ready, codec, derived, mapTokenInfoAndLimits, getLimitsCall>>
  /\ UNCHANGED <<ledgerVars, serviceVars, walletVars>>

\* lines 377-400
SenderBroadcastDataToMultisigReturns ==
  /\ sender.pc = "broadcastDataToMultisig"
  /\ sender' = [sender EXCEPT !.pc = "returned"]
  /\ UNCHANGED <<ready, codec, derived, mapTokenInfoAndLimits, getLimitsCall>>
  /\ UNCHANGED <<ledgerVars, serviceVars, walletVars>>

\* a request to the wallet service is rejected or answered with an error
SenderCallThrows ==
  /\ sender.pc \in {"sendTransactionProposal", "getMultiSigAddress",
                    "broadcastDataToMultisig"}
  /\ sender' = [sender EXCEPT !.pc = "threw"]
  /\ UNCHANGED <<ready, codec, derived, mapTokenInfoAndLimits, getLimitsCall>>
  /\ UNCHANGED <<ledgerVars, serviceVars, walletVars>>

(***************************************************************************)
(* HathorWallet.wrapData and the decoding of its outputs                   *)
(***************************************************************************)
\* A string is the sequence of its characters.
\* line 354
dataLimit == 145

Digits == <<"0", "1", "2", "3", "4", "5", "6", "7", "8", "9">>

\* `${n}` of a number n >= 0: its decimal digits
RECURSIVE toString(_)
toString(n) ==
  IF n < 10
  THEN <<Digits[n + 1]>>
  ELSE toString(n \div 10) \o <<Digits[(n % 10) + 1]>>

\* variant: Math.floor in place of Math.ceil
ceil_Floor(dataLength, limit) == dataLength \div limit

\* Math.ceil(dataLength / limit)
ceil(dataLength, limit) ==
  IF dataLength % limit = 0
  THEN dataLength \div limit
  ELSE (dataLength \div limit) + 1

\* data.substring(start, end) for 0 <= start <= end: both ends are clamped
\* to the length of data
substring(data, start, end) ==
  LET from == IF start < Len(data) THEN start ELSE Len(data)
      to == IF end < Len(data) THEN end ELSE Len(data)
  IN SubSeq(data, from + 1, to)

\* lines 349-375: the data outputs, then the output paying the multisig
\* address
wrapData(dataType, data) ==
  LET dataLength == Len(data)
      arraySize == ceil(dataLength, dataLimit)
      output(i) ==
        LET start == i * dataLimit
            end == start + dataLimit
            part == substring(data, start, end)
        IN [type |-> "data",
            data |-> dataType \o toString(i) \o toString(arraySize) \o part]
  IN [k \in 1..arraySize |-> output(k - 1)]
       \o <<[type |-> "address", data |-> <<>>]>>

\* the outputs of a transaction that carry data
DataOutputs(outputs) == SelectSeq(outputs, LAMBDA o : o.type = "data")

\* Decoding (HathorTx.getCustomData). A chunk is split after the tag, whose
\* length the decoder is given: one character of chunk index, one character
\* of total, the rest is the body. A character that is no digit has no
\* value (-1).
DigitValue(c) ==
  IF \E d \in 0..9 : Digits[d + 1] = c
  THEN CHOOSE d \in 0..9 : Digits[d + 1] = c
  ELSE -1

startsWith(text, tag) ==
  /\ Len(text) >= Len(tag)
  /\ SubSeq(text, 1, Len(tag)) = tag

Chunk(text, tag) ==
  [index |-> IF Len(text) > Len(tag) THEN DigitValue(text[Len(tag) + 1]) ELSE -1,
   total |-> IF Len(text) > Len(tag) + 1
             THEN DigitValue(text[Len(tag) + 2])
             ELSE -1,
   body |-> SubSeq(text, Len(tag) + 3, Len(text))]

\* the bodies of the chunks with index >= k, in the order of their index
RECURSIVE BodiesFrom(_, _)
BodiesFrom(chunks, k) ==
  IF k > 9
  THEN <<>>
  ELSE LET at == SelectSeq(chunks, LAMBDA c : c.index = k)
       IN (IF at = <<>> THEN <<>> ELSE at[1].body) \o BodiesFrom(chunks, k + 1)

Decoded(status, payload) == [status |-> status, payload |-> payload]

\* decode(transaction, tag): the chunks of the outputs that start with the
\* tag; absent when there is none; malformed when an index of [0, total) is
\* missing, when two chunks claim one index, or when the chunks disagree on
\* the total; else the bodies in the order of their index
decode(outputs, tag) ==
  LET texts == SelectSeq(outputs,
                         LAMBDA o : o.type = "data" /\ startsWith(o.data, tag))
      chunks == [i \in DOMAIN texts |-> Chunk(texts[i].data, tag)]
      total == chunks[1].total
  IN IF chunks = <<>>
     THEN Decoded("absent", <<>>)
     ELSE IF \/ \E i \in DOMAIN chunks :
                  chunks[i].total # total \/ chunks[i].index < 0
             \/ \E k \in 0..(total - 1) :
                  \A i \in DOMAIN chunks : chunks[i].index # k
             \/ \E i, j \in DOMAIN chunks :
                  i # j /\ chunks[i].index = chunks[j].index
     THEN Decoded("malformed", <<>>)
     ELSE Decoded("ok", BodiesFrom(chunks, 0))

\* the payloads: every length around a multiple of dataLimit up to
\* MaxChunks outputs, filled with letters and digits in turn
PayloadLengths ==
  {k * dataLimit + d : k \in 0..(MaxChunks - 1), d \in {0, 1, dataLimit - 1}}
    \cup {MaxChunks * dataLimit}

Alphabet == <<"a", "0", "1">>

Payload(length, shift) ==
  [i \in 1..length |-> Alphabet[((i + shift) % Len(Alphabet)) + 1]]

Payloads ==
  {Payload(length, shift) : length \in PayloadLengths, shift \in 0..(Len(Alphabet) - 1)}

Tags == {<<"h", "e", "x">>, <<"s", "i", "g">>}

NotDecoded == Decoded("none", <<>>)

IdleCodec ==
  [pc |-> "idle", tag |-> <<>>, data |-> <<>>, outputs |-> <<>>,
   decoded |-> NotDecoded]

\* wrapData(dataType, data) returns its outputs
WrapDataReturns ==
  /\ codec.pc = "called"
  /\ codec' = [codec EXCEPT !.pc = "wrapped",
                            !.outputs = wrapData(codec.tag, codec.data)]
  /\ UNCHANGED <<ready, sender, derived, mapTokenInfoAndLimits, getLimitsCall>>
  /\ UNCHANGED <<ledgerVars, serviceVars, walletVars>>

\* lines 369-372: getMultiSigAddress rejects and wrapData with it
WrapDataThrows ==
  /\ codec.pc = "called"
  /\ codec' = [codec EXCEPT !.pc = "threw"]
  /\ UNCHANGED <<ready, sender, derived, mapTokenInfoAndLimits, getLimitsCall>>
  /\ UNCHANGED <<ledgerVars, serviceVars, walletVars>>

\* the transaction carrying the outputs is read back under the same tag
GetCustomData ==
  /\ codec.pc = "wrapped"
  /\ codec' = [codec EXCEPT !.pc = "decoded",
                            !.decoded = decode(codec.outputs, codec.tag)]
  /\ UNCHANGED <<ready, sender, derived, mapTokenInfoAndLimits, getLimitsCall>>
  /\ UNCHANGED <<ledgerVars, serviceVars, walletVars>>

(***************************************************************************)
(* HathorWallet: the 'message' callback and parseHathorLogs                *)
(***************************************************************************)
\* line 46
walletNonRetriableErrors == <<InputsSpent>>

\* nonRetriableErrors.includes(text): strict equality with an element
includes(list, text) == \E i \in 1..Len(list) : list[i] = text

IdleWalletHandler ==
  [pc |-> "idle", message |-> NoMessage, ready |-> <<>>, calls |-> <<>>,
   error |-> NoError, acks |-> 0, nacks |-> 0]

\* lines 111-112: parseHathorLogs returned
walletOnReturn(r) == ack(r)

\* lines 113-124: the catch block
walletOnError(r, error) ==
  LET r1 == [r EXCEPT !.error = error]
  IN IF /\ error.type = "HathorException"
        /\ error.hasOriginal
        /\ includes(walletNonRetriableErrors, getOriginalMessage(error))
     THEN ack(r1)
     ELSE nack(r1)

walletAwait(r, op) == [r EXCEPT !.pc = op, !.calls = Append(@, op)]

\* lines 153-158, reached after the proposal block
walletAfterProposal(r) ==
  IF chainConfig.multisigOrder >= chainConfig.multisigRequiredSignatures
  THEN walletAwait(r, "getSignaturesToPush")
  ELSE walletOnReturn(r)

\* lines 111 and 136-153: JSON.parse, then parseHathorLogs up to its first
\* await (or to its return)
walletParseHathorLogs(r) ==
  LET event == r.message
  IN IF event.malformed
     THEN walletOnError(r, PlainError)
     ELSE IF ~isNewTx(event)
     THEN walletOnReturn(r)
     ELSE IF haveCustomData(event, "hex")
     THEN walletAwait(r, "isWalletReady(true)")
     ELSE walletAfterProposal(r)

\* lines 148-149: an isWalletReady call ended; its result is not looked at
walletAfterIsWalletReady(r, outcome) ==
  LET r1 == [r EXCEPT !.ready = Append(@, outcome.result)]
  IN IF outcome.result = "throws"
     THEN walletOnError(r1, PlainError)
     ELSE IF r.pc = "isWalletReady(true)"
     THEN walletAwait(r1, "isWalletReady(false)")
     ELSE walletAfterProposal(r1)

\* lines 155-157 and 165-181: getHistory answered; hasHex: the history holds
\* a transaction with 'hex' custom data (without one, hex.getCustomData()
\* throws a TypeError)
walletAfterGetSignaturesToPush(r, hasHex) ==
  IF ~hasHex
  THEN walletOnError(r, PlainError)
  ELSE walletAwait(r, "signAndPushProposal")

WalletDeliver ==
  /\ walletHandler.pc = "idle"
  /\ walletDelivered < MaxDeliveries
  /\ \E event \in Events :
       walletHandler' =
         [IdleWalletHandler EXCEPT !.pc = "received", !.message = event]
  /\ walletDelivered' = walletDelivered + 1
  /\ UNCHANGED <<walletPushCalls, walletPushed>>
  /\ UNCHANGED <<ledgerVars, serviceVars, clientVars>>

WalletHandlerStart ==
  /\ walletHandler.pc = "received"
  /\ walletHandler' = walletParseHathorLogs(walletHandler)
  /\ UNCHANGED <<walletDelivered, walletPushCalls, walletPushed>>
  /\ UNCHANGED <<ledgerVars, serviceVars, clientVars>>

WalletIsWalletReadyEnds ==
  /\ walletHandler.pc \in {"isWalletReady(true)", "isWalletReady(false)"}
  /\ \E outcome \in ReadyOutcomes :
       walletHandler' = walletAfterIsWalletReady(walletHandler, outcome)
  /\ UNCHANGED <<walletDelivered, walletPushCalls, walletPushed>>
  /\ UNCHANGED <<ledgerVars, serviceVars, clientVars>>

WalletGetSignaturesToPushReturns ==
  /\ walletHandler.pc = "getSignaturesToPush"
  /\ \E hasHex \in BOOLEAN :
       LET r == walletAfterGetSignaturesToPush(walletHandler, hasHex)
       IN /\ walletHandler' = r
          /\ walletPushCalls' =
               IF r.pc = "signAndPushProposal"
               THEN walletPushCalls + 1
               ELSE walletPushCalls
  /\ UNCHANGED <<walletDelivered, walletPushed>>
  /\ UNCHANGED <<ledgerVars, serviceVars, clientVars>>

\* lines 318-323: the wallet service answered 200 with success
WalletSignAndPushProposalReturns ==
  /\ walletHandler.pc = "signAndPushProposal"
  /\ walletHandler' = walletOnReturn(walletHandler)
  /\ walletPushed' = TRUE
  /\ UNCHANGED <<walletDelivered, walletPushCalls>>
  /\ UNCHANGED <<ledgerVars, serviceVars, clientVars>>

\* getHistory (lines 193-203) or axios.post (line 318) rejects, or the wallet
\* service answers sign-and-push with an error (lines 320-323)
WalletCallThrows ==
  /\ walletHandler.pc \in {"getSignaturesToPush", "signAndPushProposal"}
  /\ \E error \in BrokerErrors(walletHandler.pc) :
       /\ error.type = "HathorException" =>
            walletHandler.pc = "signAndPushProposal"
       /\ walletHandler' = walletOnError(walletHandler, error)
  /\ UNCHANGED <<walletDelivered, walletPushCalls, walletPushed>>
  /\ UNCHANGED <<ledgerVars, serviceVars, clientVars>>

WalletSettle ==
  /\ walletHandler.pc = "done"
  /\ walletHandler.acks > 0
  /\ walletHandler' = IdleWalletHandler
  /\ UNCHANGED <<walletDelivered, walletPushCalls, walletPushed>>
  /\ UNCHANGED <<ledgerVars, serviceVars, clientVars>>

WalletRedeliver ==
  /\ walletHandler.pc = "done"
  /\ walletHandler.acks = 0
  /\ walletDelivered < MaxDeliveries
  /\ walletHandler' =
       [IdleWalletHandler EXCEPT !.pc = "received",
                                 !.message = walletHandler.message]
  /\ walletDelivered' = walletDelivered + 1
  /\ UNCHANGED <<walletPushCalls, walletPushed>>
  /\ UNCHANGED <<ledgerVars, serviceVars, clientVars>>

(***************************************************************************)
(* IAllowTokensV1.getLimits and its cache mapTokenInfoAndLimits            *)
(***************************************************************************)
Tokens == 1..MaxTokens
\* the tokens for which getInfoAndLimits answers info.allowed = true
AllowedTokens == 1..MaxAllowed

\* what mapTokenInfoAndLimits[tokenAddress] reads when nothing was stored
Undefined ==
  [defined |-> FALSE, allowed |-> FALSE, mediumAmount |-> 0, largeAmount |-> 0]

\* result = { allowed, mediumAmount, largeAmount }
LimitsResult(allowed, mediumAmount, largeAmount) ==
  [defined |-> TRUE, allowed |-> allowed, mediumAmount |-> mediumAmount,
   largeAmount |-> largeAmount]

\* the answers of getInfoAndLimits for a token: the limits are whatever the
\* contract holds at the time of the call
InfoAndLimits(tokenAddress) ==
  {LimitsResult(tokenAddress \in AllowedTokens, mediumAmount, largeAmount) :
     mediumAmount \in {1, 2}, largeAmount \in {3, 4}}

\* this.mapTokenInfoAndLimits = {}
EmptyCache == [tokenAddress \in Tokens |-> Undefined]

IdleGetLimits ==
  [pc |-> "idle", tokenAddress |-> 0, result |-> Undefined, calls |-> 0,
   contractCalls |-> 0]

\* variant: the cached entry is not looked at
isMiss_Always(result) == TRUE

\* if (!result)
isMiss(result) == ~result.defined

\* getLimits up to its await: a cached entry is returned at once, a miss
\* calls getInfoAndLimits
GetLimitsCalled ==
  /\ getLimitsCall.pc # "awaiting"
  /\ getLimitsCall.calls < MaxGetLimitsCalls
  /\ \E tokenAddress \in Tokens :
       LET result == mapTokenInfoAndLimits[tokenAddress]
       IN getLimitsCall' =
            IF isMiss(result)
            THEN [getLimitsCall EXCEPT
                    !.pc = "awaiting", !.tokenAddress = tokenAddress,
                    !.result = Undefined, !.calls = @ + 1,
                    !.contractCalls = @ + 1]
            ELSE [getLimitsCall EXCEPT
                    !.pc = "returned", !.tokenAddress = tokenAddress,
                    !.result = result, !.calls = @ + 1]
  /\ UNCHANGED <<ledgerVars, serviceVars, walletVars, ready, sender, codec,
                 derived, mapTokenInfoAndLimits>>

\* getInfoAndLimits answers: the result is stored if the token is allowed,
\* and returned
GetInfoAndLimitsReturns ==
  /\ getLimitsCall.pc = "awaiting"
  /\ \E result \in InfoAndLimits(getLimitsCall.tokenAddress) :
       /\ mapTokenInfoAndLimits' =
            IF result.allowed
            THEN [mapTokenInfoAndLimits EXCEPT
                    ![getLimitsCall.tokenAddress] = result]
            ELSE mapTokenInfoAndLimits
       /\ getLimitsCall' =
            [getLimitsCall EXCEPT !.pc = "returned", !.result = result]
  /\ UNCHANGED <<ledgerVars, serviceVars, walletVars, ready, sender, codec,
                 derived>>

\* getInfoAndLimits fails: getLimits throws a CustomError
GetInfoAndLimitsThrows ==
  /\ getLimitsCall.pc = "awaiting"
  /\ getLimitsCall' = [getLimitsCall EXCEPT !.pc = "thrown"]
  /\ UNCHANGED <<ledgerVars, serviceVars, walletVars, ready, sender, codec,
                 derived, mapTokenInfoAndLimits>>

(***************************************************************************)
(* Specifications                                                          *)
(***************************************************************************)
InitService ==
  /\ chainConfig \in [multisigOrder : 1..MaxFederators,
                      multisigRequiredSignatures : 1..MaxFederators]
  /\ handler = [h \in Handlers |-> IdleHandler]
  /\ delivered = 0
  /\ signAndPushCalls = [p \in Proposals |-> 0]
  /\ signAndPushed = {}
  /\ pushEffects = [x \in TxIds |-> 0]


\* no id has been derived, the limits cache is as the constructor leaves it
InitOthers ==
  /\ derived = NoDerivations
  /\ mapTokenInfoAndLimits = EmptyCache
  /\ getLimitsCall = IdleGetLimits

\* no wallet-service operation is under way
InitClient ==
  /\ ready = IdleReady
  /\ sender = IdleSender
  /\ codec = IdleCodec
  /\ InitOthers

InitWallet ==
  /\ walletHandler = IdleWalletHandler
  /\ walletDelivered = 0
  /\ walletPushCalls = 0
  /\ walletPushed = FALSE
  /\ InitClient

\* the ledger on its own: no federator runs
InitLedger ==
  /\ initialize
  /\ InitService
  /\ chainConfig = [multisigOrder |-> 1, multisigRequiredSignatures |-> 1]
  /\ InitWallet

\* a federator that is a member of the federation
Init ==
  /\ initialize
  /\ members = <<FederatorAddress>>
  /\ InitService
  /\ InitWallet

NextLedger ==
  \/ GetTransactionIdCall
  \/ SendTransactionProposalCall
  \/ UpdateSignatureStateCall
  \/ UpdateTransactionStateCall
  \/ AddMemberCall
  \/ RemoveMemberCall

Next ==
  \E h \in Handlers :
    \/ Deliver(h)
    \/ HandlerStart(h)
    \/ IsTxConfirmedReturns(h)
    \/ SendMySignaturesToProposalReturns(h)
    \/ GetSignaturesToPushReturns(h)
    \/ SignAndPushProposalReturns(h)
    \/ SendTokensFromHathorReturns(h)
    \/ SendTokensFromHathorLost(h)
    \/ BrokerThrows(h)
    \/ Settle(h)
    \/ Redeliver(h)

NextWallet ==
  \/ WalletDeliver
  \/ WalletHandlerStart
  \/ WalletIsWalletReadyEnds
  \/ WalletGetSignaturesToPushReturns
  \/ WalletSignAndPushProposalReturns
  \/ WalletCallThrows
  \/ WalletSettle
  \/ WalletRedeliver

\* the ledger contract under arbitrary calls
SpecLedger == InitLedger /\ [][NextLedger]_vars

\* the handler of HathorWallet
SpecWallet == Init /\ [][NextWallet]_vars

\* the handler of HathorService
Spec == Init /\ [][Next]_vars

\* two runs of the handler of HathorService side by side, at a federator
\* at the threshold position
InitConcurrent ==
  /\ initialize
  /\ members = <<FederatorAddress>>
  /\ chainConfig = [multisigOrder |-> 1, multisigRequiredSignatures |-> 1]
  /\ handler = [h \in ConcurrentHandlers |-> IdleHandler]
  \* two deliveries are left: one message for each run, or one message and
  \* its redelivery
  /\ delivered = MaxDeliveries - Cardinality(ConcurrentHandlers)
  /\ signAndPushCalls = [p \in Proposals |-> 0]
  /\ signAndPushed = {}
  /\ pushEffects = [x \in TxIds |-> 0]
  /\ InitWallet

NextConcurrent ==
  \E h \in ConcurrentHandlers :
    \/ Deliver(h)
    \/ HandlerStart(h)
    \/ IsTxConfirmedReturns(h)
    \/ SendMySignaturesToProposalReturns(h)
    \/ GetSignaturesToPushReturns(h)
    \/ SignAndPushProposalReturns(h)
    \/ SendTokensFromHathorReturns(h)
    \/ SendTokensFromHathorLost(h)
    \/ BrokerThrows(h)
    \/ Settle(h)
    \/ Redeliver(h)

SpecConcurrent == InitConcurrent /\ [][NextConcurrent]_vars

\* one isWalletReady call, for either wallet and any answers to its polls
InitReady ==
  /\ initialize
  /\ members = <<FederatorAddress>>
  /\ InitService
  /\ chainConfig = [multisigOrder |-> 1, multisigRequiredSignatures |-> 1]
  /\ walletHandler = IdleWalletHandler
  /\ walletDelivered = 0
  /\ walletPushCalls = 0
  /\ walletPushed = FALSE
  /\ ready \in [pc : {"called"}, multisig : BOOLEAN,
                 responses : ProbeSequences, outcome : {NoOutcome}]
  /\ sender = IdleSender
  /\ codec = IdleCodec
  /\ InitOthers

NextReady == IsWalletReadyRuns

SpecReady == InitReady /\ [][NextReady]_vars

\* one sendTokensToHathor call, at any federator
InitSend ==
  /\ initialize
  /\ members = <<FederatorAddress>>
  /\ InitService
  /\ InitWallet

NextSend ==
  \/ SendTokensToHathorCalled
  \/ SenderIsWalletReadyEnds
  \/ SenderSendTransactionProposalReturns
  \/ SenderGetMultiSigAddressReturns
  \/ SenderBroadcastDataToMultisigReturns
  \/ SenderCallThrows

SpecSend == InitSend /\ [][NextSend]_vars

\* one wrapData call on any payload, and the decoding of what it returned
InitCodec ==
  /\ initialize
  /\ members = <<FederatorAddress>>
  /\ InitService
  /\ chainConfig = [multisigOrder |-> 1, multisigRequiredSignatures |-> 1]
  /\ walletHandler = IdleWalletHandler
  /\ walletDelivered = 0
  /\ walletPushCalls = 0
  /\ walletPushed = FALSE
  /\ ready = IdleReady
  /\ sender = IdleSender
  /\ codec \in [pc : {"called"}, tag : Tags, data : Payloads,
                 outputs : {<<>>}, decoded : {NotDecoded}]
  /\ InitOthers

NextCodec ==
  \/ WrapDataReturns
  \/ WrapDataThrows
  \/ GetCustomData

SpecCodec == InitCodec /\ [][NextCodec]_vars

\* the handler of HathorService with every message that is not acknowledged
\* delivered again, for ever
NextLive ==
  \E h \in Handlers :
    \/ Deliver(h)
    \/ HandlerStart(h)
    \/ IsTxConfirmedReturns(h)
    \/ SendMySignaturesToProposalReturns(h)
    \/ GetSignaturesToPushReturns(h)
    \/ SignAndPushProposalReturns(h)
    \/ SendTokensFromHathorReturns(h)
    \/ SendTokensFromHathorLost(h)
    \/ BrokerThrows(h)
    \/ Settle(h)
    \/ RedeliverAlways(h)

\* The handler runs on; a message that is not acknowledged is delivered
\* again; every awaited call that is made again and again returns, and
\* returns, at some time, what lets the handler go on: the transaction is
\* confirmed, the signatures are enough, the push goes through.
FairLive ==
  \A h \in Handlers :
    /\ WF_vars(HandlerStart(h))
    /\ WF_vars(RedeliverAlways(h))
    /\ WF_vars(Settle(h))
    /\ SF_vars(IsTxConfirmedReturns(h) /\ handler'[h].confirmed = "true")
    /\ SF_vars(SendMySignaturesToProposalReturns(h))
    /\ SF_vars(GetSignaturesToPushReturns(h)
                 /\ handler'[h].pc = "signAndPushProposal")
    /\ SF_vars(SignAndPushProposalReturns(h))
    /\ SF_vars(SendTokensFromHathorReturns(h))
    /\ SF_vars(SendTokensFromHathorReturns(h) /\ handler'[h].result = "true")

\* one delivery is left: one message, delivered again as often as it is
\* not acknowledged
InitLive ==
  /\ initialize
  /\ members = <<FederatorAddress>>
  /\ chainConfig \in [multisigOrder : 1..MaxFederators,
                      multisigRequiredSignatures : 1..MaxFederators]
  /\ handler = [h \in Handlers |-> IdleHandler]
  /\ delivered = MaxDeliveries - 1
  /\ signAndPushCalls = [p \in Proposals |-> 0]
  /\ signAndPushed = {}
  /\ pushEffects = [x \in TxIds |-> 0]
  /\ InitWallet

SpecLive == InitLive /\ [][NextLive]_vars /\ FairLive

\* the ledger under arbitrary calls, and the ids its functions derive
InitId ==
  /\ initialize
  /\ members = <<FederatorAddress>>
  /\ InitService
  /\ chainConfig = [multisigOrder |-> 1, multisigRequiredSignatures |-> 1]
  /\ InitWallet

NextId ==
  \/ DeriveTransactionId
  \/ derived = NoDerivations /\ NextLedger

SpecId == InitId /\ [][NextId]_vars

\* getLimits calls one after the other, for any tokens
NextLimits ==
  \/ GetLimitsCalled
  \/ GetInfoAndLimitsReturns
  \/ GetInfoAndLimitsThrows

SpecLimits == InitId /\ [][NextLimits]_vars

(***************************************************************************)
(* Properties of a handler run                                             *)
(***************************************************************************)
Done(r) == r.pc = "done"

\* the calls of one operation made in a run
CallsOf(r, op) == {i \in DOMAIN r.calls : r.calls[i].op = op}

\* the calls the confirmation gates
GatedCalls ==
  {"sendTokensFromHathor", "sendMySignaturesToProposal", "getSignaturesToPush",
   "signAndPushProposal"}

\* C1: every handler run ends with exactly one of message.ack() and
\* message.nack(), called exactly once, and calls neither before it ends.
C1_ExactlyOneAckOrNack ==
  \A h \in Handlers :
    LET r == handler[h]
    IN IF Done(r) THEN r.acks + r.nacks = 1 ELSE r.acks + r.nacks = 0

\* C2: a 'wallet:new-tx' event with none of 'hex', 'sig', 'addr' is
\* acknowledged (ack, no nack) and no broker call is made.
C2_UnrecognizedIsAcked ==
  \A h \in Handlers :
    LET r == handler[h]
        e == r.message
    IN (/\ Done(r)
        /\ ~e.malformed /\ e.type = "wallet:new-tx"
        /\ ~e.hex /\ ~e.sig /\ ~e.addr)
       => (r.acks = 1 /\ r.nacks = 0 /\ r.calls = <<>>)

\* C3: in every run a gated call (sendTokensFromHathor,
\* sendMySignaturesToProposal, getSignaturesToPush, signAndPushProposal) is
\* made only after isTxConfirmed was called and returned true in that run;
\* when isTxConfirmed returned false, no gated call is made and the message
\* is nacked.
C3_ConfirmationGate ==
  \A h \in Handlers :
    LET r == handler[h]
    IN /\ \A i \in DOMAIN r.calls :
            r.calls[i].op \in GatedCalls =>
              /\ r.confirmed = "true"
              /\ \E j \in 1..(i - 1) : r.calls[j].op = "isTxConfirmed"
       /\ r.confirmed = "false" =>
            /\ \A i \in DOMAIN r.calls : r.calls[i].op \notin GatedCalls
            /\ Done(r) /\ r.nacks = 1 /\ r.acks = 0

C3_Witness ==
  \E h \in Handlers :
    LET r == handler[h]
    IN /\ r.confirmed = "true"
       /\ CallsOf(r, "signAndPushProposal") # {}
       /\ Done(r)

\* C4: a 'sig' event at a federator with multisigOrder >=
\* multisigRequiredSignatures, confirmed, for which getSignaturesToPush
\* returned: with fewer signatures than required, signAndPushProposal is not
\* called and the message is nacked; otherwise signAndPushProposal is called
\* exactly once, with the returned hex and signatures, and once it has
\* returned the message is acked.
C4_SignatureThreshold ==
  \A h \in Handlers :
    LET r == handler[h]
        pushes == CallsOf(r, "signAndPushProposal")
    IN (/\ r.message.sig
        /\ chainConfig.multisigOrder >= chainConfig.multisigRequiredSignatures
        /\ r.confirmed = "true"
        /\ r.components # NoComponents)
       => IF Len(r.components.signatures) < chainConfig.multisigRequiredSignatures
          THEN /\ pushes = {}
               /\ Done(r) /\ r.nacks = 1 /\ r.acks = 0
          ELSE /\ Cardinality(pushes) = 1
               /\ \A i \in pushes :
                    /\ r.calls[i].hex = r.components.hex
                    /\ r.calls[i].signatures = r.components.signatures
                    /\ r.calls[i].txId = r.message.target
               /\ (Done(r) /\ r.error = NoError) => (r.acks = 1 /\ r.nacks = 0)
               /\ (~Done(r)) => r.pc = "signAndPushProposal"

C4_Witness ==
  \E h \in Handlers :
    LET r == handler[h]
    IN /\ r.message.sig
       /\ r.confirmed = "true"
       /\ Len(r.components.signatures) = chainConfig.multisigRequiredSignatures
       /\ CallsOf(r, "signAndPushProposal") # {}
       /\ Done(r) /\ r.error = NoError /\ r.acks = 1

\* C5: a 'sig' event at a federator with multisigOrder below
\* multisigRequiredSignatures makes no broker call and is acknowledged.
C5_BelowThresholdIsAcked ==
  \A h \in Handlers :
    LET r == handler[h]
        e == r.message
    IN (/\ Done(r)
        /\ ~e.malformed /\ e.type = "wallet:new-tx"
        /\ e.sig /\ ~e.hex /\ ~e.addr
        /\ chainConfig.multisigOrder < chainConfig.multisigRequiredSignatures)
       => (r.calls = <<>> /\ r.acks = 1 /\ r.nacks = 0)

\* C6: when an 'addr' event is confirmed and sendTokensFromHathor returns a
\* truthy result, the run has made exactly one sendTokensFromHathor call and
\* the message is acked (and not nacked).
C6_OnePushThenAck ==
  \A h \in Handlers :
    LET r == handler[h]
    IN r.result = "true" =>
         /\ r.message.addr /\ r.confirmed = "true"
         /\ Cardinality(CallsOf(r, "sendTokensFromHathor")) = 1
         /\ Done(r) /\ r.acks = 1 /\ r.nacks = 0

C6_Witness ==
  \E h \in Handlers :
    LET r == handler[h]
    IN /\ r.result = "true" /\ r.message.addr /\ ~r.message.hex
       /\ Done(r) /\ r.acks = 1
       /\ pushEffects[r.message.tx_id] = 1

C8_AtMostOneSignAndPush ==
  [][\A p \in Proposals :
       p \in signAndPushed => signAndPushCalls'[p] = signAndPushCalls[p]]_vars

\* C11: a transaction with more than one custom-data tag is classified by
\* the priority addr > hex > sig: with 'addr' present it is handled as an
\* inbound transfer, and with 'hex' and 'sig' (and no 'addr') as a proposal.
C11_TagPriority ==
  \A h \in Handlers :
    LET r == handler[h]
        e == r.message
    IN r.path # "none" =>
         /\ e.addr => r.path = "transfer"
         /\ (e.hex /\ ~e.addr) => r.path = "proposal"

\* the upstream messages one of the configured patterns is found in
NonRetriableMessages ==
  {<<"Invalid tx">>,
   <<"Transaction already exists">>,
   <<"400 - ", "Transaction already exists">>,
   InputsSpent}

\* the error of the run is a HathorException whose upstream message matches
\* a configured non-retriable pattern
MatchesPattern(r) ==
  /\ r.error.type = "HathorException"
  /\ r.error.hasOriginal
  /\ r.error.original \in NonRetriableMessages

\* C12: a run that threw a HathorException whose original upstream message
\* matches a configured non-retriable pattern ends with the message acked;
\* a run that threw an error matching no pattern, or an error that is not a
\* HathorException, ends with the message nacked.
C12_ErrorClassification ==
  \A h \in Handlers :
    LET r == handler[h]
    IN (Done(r) /\ r.error # NoError) =>
         IF MatchesPattern(r)
         THEN r.acks = 1 /\ r.nacks = 0
         ELSE r.nacks = 1 /\ r.acks = 0

\* the classification of the errors that carry an upstream message, and of
\* the errors that are not a HathorException
ErrorWithMessageClassified ==
  \A h \in Handlers :
    LET r == handler[h]
    IN (/\ Done(r) /\ r.error # NoError
        /\ r.error.type = "HathorException" => r.error.hasOriginal) =>
         IF MatchesPattern(r)
         THEN r.acks = 1 /\ r.nacks = 0
         ELSE r.nacks = 1 /\ r.acks = 0

\* the run met a transient external failure: the transaction is not yet
\* confirmed, the proposal has fewer signatures than required, or an
\* awaited wallet or contract call failed (unreachable, non-2xx) with an
\* error no non-retriable pattern matches
TransientFailure(r) ==
  \/ r.confirmed = "false"
  \/ /\ r.components # NoComponents
     /\ Len(r.components.signatures) < chainConfig.multisigRequiredSignatures
  \/ /\ r.error # NoError
     /\ r.calls # <<>>
     /\ ~MatchesPattern(r)

\* C13: a run that met a transient external failure ends with the message
\* nacked, never acked, and no exception escapes the handler.
C13_TransientFailureIsNacked ==
  \A h \in Handlers :
    LET r == handler[h]
    IN (Done(r) /\ TransientFailure(r)) =>
         /\ r.nacks = 1 /\ r.acks = 0
         /\ ~r.escaped

\* the run has started and is suspended at an awaited broker call
Suspended(r) == r.pc \in AwaitedCalls

\* C14: no two handlers of the subscription are in flight at once: no run
\* has started while another run is suspended at an awaited call, so no two
\* runs are at signAndPushProposal for the same proposal together.
C14_OneHandlerAtATime ==
  \A h1, h2 \in DOMAIN handler :
    (Suspended(handler[h1]) /\ Suspended(handler[h2])) => h1 = h2

\* two runs are suspended at signAndPushProposal for the same proposal
TwoPushesInFlight ==
  \E h1, h2 \in DOMAIN handler :
    /\ h1 # h2
    /\ handler[h1].pc = "signAndPushProposal"
    /\ handler[h2].pc = "signAndPushProposal"
    /\ handler[h1].message.target = handler[h2].message.target

\* C23: on the proposal and signature paths the broker is the one
\* getBrokerAndDataType picks by the data type tag, the EvmBroker for 'hsh'
\* and the HathorBroker for 'hid', and there is always one; an inbound
\* ('addr') transfer uses the HathorBroker.
C23_BrokerByTag ==
  \A h \in DOMAIN handler :
    LET r == handler[h]
    IN /\ r.path \in {"proposal", "signature"} =>
            /\ r.broker \in {"EvmBroker", "HathorBroker"}
            /\ r.message.customDataType = "hsh" => r.broker = "EvmBroker"
            /\ r.message.customDataType = "hid" => r.broker = "HathorBroker"
       /\ r.path = "transfer" => r.broker = "HathorBroker"

\* with an 'hsh' or 'hid' tag the broker is the one of the tag
BrokerByKnownTag ==
  \A h \in DOMAIN handler :
    LET r == handler[h]
    IN /\ (/\ r.path \in {"proposal", "signature"}
           /\ r.message.customDataType = "hsh") => r.broker = "EvmBroker"
       /\ (/\ r.path \in {"proposal", "signature"}
           /\ r.message.customDataType = "hid") => r.broker = "HathorBroker"
       /\ r.path = "transfer" => r.broker = "HathorBroker"

\* a message that is a JSON document of a type other than 'wallet:new-tx'
OtherType(message) == ~message.malformed /\ message.type # "wallet:new-tx"

\* C24: the handler of a message whose type is not 'wallet:new-tx' ends at
\* once: it acknowledges the message, once, does not nack it, and makes no
\* broker, wallet or contract call.
C24_OtherTypesAcked ==
  [][\A h \in DOMAIN handler :
       (/\ handler[h].pc = "received"
        /\ OtherType(handler[h].message)
        /\ handler'[h] # handler[h]) =>
         /\ handler'[h].pc = "done"
         /\ handler'[h].acks = 1 /\ handler'[h].nacks = 0
         /\ handler'[h].calls = <<>>
         /\ UNCHANGED <<ledgerVars, signAndPushCalls, signAndPushed,
                        pushEffects, walletPushCalls>>
    ]_vars

\* such a message has been acknowledged at a federator at the threshold
\* position
C24_Witness ==
  \E h \in DOMAIN handler :
    /\ handler[h].pc = "done"
    /\ OtherType(handler[h].message)
    /\ handler[h].acks = 1
    /\ chainConfig.multisigOrder >= chainConfig.multisigRequiredSignatures

\* the same in HathorWallet
WalletOtherTypesAcked ==
  [][(/\ walletHandler.pc = "received"
      /\ OtherType(walletHandler.message)
      /\ walletHandler' # walletHandler) =>
        /\ walletHandler'.pc = "done"
        /\ walletHandler'.acks = 1 /\ walletHandler'.nacks = 0
        /\ walletHandler'.calls = <<>>
        /\ UNCHANGED <<ledgerVars, walletPushCalls, walletPushed>>
    ]_vars

\* the push of an inbound transfer returned a falsy result
PushFailed(r) == r.pc = "done" /\ r.result = "false"

\* C27: when sendTokensFromHathor returns a falsy result the handler raises
\* HathorException('Invalid tx'), which matches a non-retriable pattern: the
\* message is acknowledged, not nacked, and is not delivered again.
C27_FailedPushIsDropped ==
  [][\A h \in DOMAIN handler :
       PushFailed(handler[h]) =>
         /\ handler[h].confirmed = "true"
         /\ handler[h].error = HathorException(<<"Invalid tx">>)
         /\ handler[h].acks = 1 /\ handler[h].nacks = 0
         /\ ~handler[h].escaped
         /\ handler'[h] \in {handler[h], IdleHandler}
    ]_vars

C27_Witness ==
  \E h \in DOMAIN handler :
    /\ PushFailed(handler[h])
    /\ handler[h].acks = 1
    /\ handler[h].message.addr

\* C26: with every unacknowledged message delivered again, the transaction
\* confirmed at some time, the signatures enough at some time and the
\* awaited calls going through at some time, every delivered message is
\* acknowledged at some time.
C26_EveryMessageAcked ==
  \A h \in Handlers :
    handler[h].pc = "received" ~> handler[h].acks > 0

\* a message the handler can work on: a document of type 'wallet:new-tx'
\* with the data its path reads
Workable(e) ==
  /\ ~e.malformed
  /\ isNewTx(e) =>
       \/ e.hex /\ e.customDataType # "none"
       \/ /\ ~e.hex /\ e.sig /\ e.customDataType # "none"
          /\ chainConfig.multisigOrder >= chainConfig.multisigRequiredSignatures
       \/ ~e.hex /\ ~isSignaturePath(e) /\ e.addr /\ e.hasTokenData

\* every workable message is acknowledged at some time
WorkableMessageAcked ==
  \A h \in Handlers :
    (handler[h].pc = "received" /\ Workable(handler[h].message))
      ~> handler[h].acks > 0

\* a transaction that is not a bridge transaction, or a signature at a
\* federator below the threshold position, is acknowledged at some time
UnrecognizedMessageAcked ==
  \A h \in Handlers :
    (/\ handler[h].pc = "received"
     /\ ~handler[h].message.malformed
     /\ isNewTx(handler[h].message)
     /\ ~handler[h].message.hex
     /\ ~isSignaturePath(handler[h].message)
     /\ ~handler[h].message.addr)
      ~> handler[h].acks > 0

(***************************************************************************)
(* Properties of the ledger contract                                       *)
(***************************************************************************)
\* the signatures a member pushed for an id
SignaturesBy(id, member) ==
  {i \in DOMAIN transactionSignatures[id] :
     transactionSignatures[id][i].by = member}

\* C9: for every id and member at most one updateSignatureState call has
\* succeeded: transactionSignatures[id] holds at most one signature of the
\* member and ProposalSigned was emitted at most once for (id, member).
C9_AtMostOneSignaturePerMember ==
  \A id \in Ids, member \in Addresses :
    /\ Cardinality(SignaturesBy(id, member)) <= 1
    /\ proposalSigned[id][member] <= 1

\* C10: isProposed[id], isSigned[id][member] and isProcessed[id] never go
\* from true to false.
C10_FlagsMonotone ==
  [][\A id \in Ids :
       /\ isProposed[id] => isProposed'[id]
       /\ isProcessed[id] => isProcessed'[id]
       /\ \A member \in Addresses : isSigned[id][member] => isSigned'[id][member]
    ]_vars

\* a member whose flag is set called updateSignatureState again with
\* signed = false, and the call reverted
C10_Witness ==
  \E t \in Transfers :
    /\ lastCall.fn = "updateSignatureState"
    /\ lastCall.transactionHash = t.transactionHash
    /\ lastCall.flag = FALSE
    /\ lastCall.ok = FALSE
    /\ isMember[lastCall.sender]
    /\ isSigned[TransactionId(t)][lastCall.sender]

\* the transfer a ledger call names (the calls differ in transactionHash)
TransferCalled(call) ==
  CHOOSE t \in Transfers : t.transactionHash = call.transactionHash

\* C21: the id is a function of the six fields alone: two derivations, by
\* any two of getTransactionId, sendTransactionProposal, updateSignatureState
\* and updateTransactionState, give the same id exactly when their fields
\* are the same; a getTransactionId call changes no ledger state; and a call
\* of one of the other three that goes through changes nothing under any id
\* other than the id of its own fields.
C21_TransactionIdDeterministic ==
  [][/\ derived' # derived =>
          \A i, j \in DOMAIN derived' :
            (derived'[i].args = derived'[j].args) <=>
              (derived'[i].id = derived'[j].id)
     /\ (ledgerCalls' # ledgerCalls /\ lastCall'.fn = "getTransactionId") =>
          UNCHANGED <<members, isMember, isSigned, isProcessed, isProposed,
                      transactionHex, transactionSignatures>>
     /\ (/\ ledgerCalls' # ledgerCalls
         /\ lastCall'.fn \in LedgerFunctions \ {"getTransactionId"}
         /\ lastCall'.ok) =>
          \A id \in Ids \ {TransactionId(TransferCalled(lastCall'))} :
            /\ isSigned'[id] = isSigned[id]
            /\ isProcessed'[id] = isProcessed[id]
            /\ isProposed'[id] = isProposed[id]
            /\ transactionHex'[id] = transactionHex[id]
            /\ transactionSignatures'[id] = transactionSignatures[id]
    ]_vars

\* getTransactionId and updateSignatureState have derived the same id from
\* the same fields, whose sender and receiver differ
C21_Witness ==
  /\ derived # NoDerivations
  /\ derived[1].fn = "getTransactionId"
  /\ derived[2].fn = "updateSignatureState"
  /\ derived[1].args = derived[2].args
  /\ derived[1].args.sender # derived[1].args.receiver
  /\ derived[1].id = derived[2].id

\* C22: a call of getTransactionId, sendTransactionProposal,
\* updateSignatureState or updateTransactionState by an address that is not
\* a member (never one, or removed since) reverts and leaves isProposed,
\* isSigned, isProcessed, transactionHex and transactionSignatures as they
\* were.
C22_OnlyMembers ==
  [][(/\ ledgerCalls' # ledgerCalls
      /\ lastCall'.fn \in LedgerFunctions
      /\ ~isMember[lastCall'.sender]) =>
        /\ ~lastCall'.ok
        /\ UNCHANGED <<isProposed, isSigned, isProcessed, transactionHex,
                       transactionSignatures>>
    ]_vars

\* a call by an address that is not a member has reverted, on a ledger that
\* already holds a proposal
C22_Witness ==
  /\ lastCall.fn \in LedgerFunctions
  /\ ~lastCall.ok
  /\ ~isMember[lastCall.sender]
  /\ \E id \in Ids : isProposed[id]

\* a member that has just been removed calls one of the four functions (of
\* the two addresses other than NULL_ADDRESS, the one that is not a member
\* after a removal is the one removed)
RemovedMemberCalls ==
  [][~(/\ lastCall.fn = "removeMember" /\ lastCall.ok
       /\ ledgerCalls' # ledgerCalls
       /\ lastCall'.fn \in LedgerFunctions
       /\ lastCall'.sender # NULL_ADDRESS
       /\ ~isMember[lastCall'.sender])
    ]_vars

(***************************************************************************)
(* Properties of the limits cache                                          *)
(***************************************************************************)
Cached == {tokenAddress \in Tokens : mapTokenInfoAndLimits[tokenAddress].defined}

Syncing(response) ==
  ~response.rejects /\ response.statusCode = WALLET_STATUS_SYNCING

ReadyNow(response) ==
  ~response.rejects /\ response.statusCode = WALLET_STATUS_READY

\* the answer has one of the three status codes isWalletReady knows
KnownStatus(response) ==
  /\ ~response.rejects
  /\ response.statusCode \in {WALLET_STATUS_READY, WALLET_STATUS_CONNECTING,
                              WALLET_STATUS_SYNCING}

\* a stopped answer: none of the three status codes, success = false and an
\* empty status message
Stopped(response) ==
  /\ ~response.rejects
  /\ ~KnownStatus(response)
  /\ ~response.success /\ response.statusMessage = ""

\* C15: a wallet that answers SYNCING, SYNCING, READY makes isWalletReady
\* return true after exactly 3 status polls and exactly 2 delays; a wallet
\* that answers SYNCING to 4 polls makes it return false (it does not
\* throw).
C15_ReadinessPolling ==
  ready.pc = "returned" =>
    /\ (/\ Syncing(ready.responses[1]) /\ Syncing(ready.responses[2])
        /\ ReadyNow(ready.responses[3]))
       => /\ ready.outcome.result = "true"
          /\ Polls(ready.outcome) = 3
          /\ Delays(ready.outcome) = 2
    /\ (\A i \in 1..4 : Syncing(ready.responses[i]))
       => ready.outcome.result = "false"

C15_Witness ==
  /\ ready.pc = "returned"
  /\ Syncing(ready.responses[1]) /\ Syncing(ready.responses[2])
  /\ ReadyNow(ready.responses[3])
  /\ ready.outcome.result = "true"

\* the answer makes isWalletReady poll again
AsksAgain(response) ==
  \/ /\ ~response.rejects
     /\ response.statusCode \in {WALLET_STATUS_CONNECTING, WALLET_STATUS_SYNCING}
  \/ Stopped(response) /\ ~response.startRejects

\* C16: whatever the answers, one top-level isWalletReady call ends after at
\* most 3 status polls, and when every poll of the budget asked for another
\* one it returns false and does not throw.
C16_BoundedRetry ==
  ready.pc = "returned" =>
    /\ ready.outcome.result \in {"true", "false", "undefined", "throws"}
    /\ Polls(ready.outcome) <= 3
    /\ (\A i \in 1..3 : AsksAgain(ready.responses[i]))
       => ready.outcome.result = "false"

C16_Witness ==
  /\ ready.pc = "returned"
  /\ Stopped(ready.responses[1]) /\ ~ready.responses[1].startRejects
  /\ AsksAgain(ready.responses[2])
  /\ AsksAgain(ready.responses[3])
  /\ Polls(ready.outcome) = 3
  /\ ready.outcome.result = "false"

\* the status polls among the requests of a call, and the number of the
\* poll made by request i
StatusRequests(calls) == {i \in DOMAIN calls : calls[i].op = "status"}
PollNumber(calls, i) == Cardinality({j \in StatusRequests(calls) : j <= i})

\* C17: after a status poll answered by a stopped response the next request
\* of isWalletReady is a start call for the same wallet (so it comes before
\* the next status poll); after a READY, CONNECTING or SYNCING answer the
\* next request is not a start call.
C17_StartAfterStopped ==
  ready.pc = "returned" =>
    LET calls == ready.outcome.calls
    IN \A i \in StatusRequests(calls) :
         LET response == ready.responses[PollNumber(calls, i)]
         IN /\ calls[i].multisig = ready.multisig
            /\ Stopped(response) =>
                 /\ i + 1 \in DOMAIN calls
                 /\ calls[i + 1] = WalletCall("start", ready.multisig)
            /\ KnownStatus(response) =>
                 (i + 1 \in DOMAIN calls => calls[i + 1].op # "start")

C17_Witness ==
  /\ ready.pc = "returned"
  /\ Syncing(ready.responses[1])
  /\ Stopped(ready.responses[2]) /\ ~ready.responses[2].startRejects
  /\ Starts(ready.outcome) = 1
  /\ Polls(ready.outcome) = 3

\* the wallet service answered every request of the call
AllAnswered(outcome) ==
  /\ outcome.result # "throws"
  /\ \A i \in 1..Polls(outcome) : ~ready.responses[i].rejects

\* C28: a top-level isWalletReady call whose requests were all answered
\* resolves to true or to false: to true exactly when its last status poll,
\* one of the at most 3 of its budget, was answered READY, and to false
\* otherwise, an answer that is none of READY, CONNECTING, SYNCING and
\* stopped included.
C28_DefiniteBoolean ==
  (ready.pc = "returned" /\ AllAnswered(ready.outcome)) =>
    /\ ready.outcome.result \in {"true", "false"}
    /\ ready.outcome.result = "true" <=>
         /\ Polls(ready.outcome) \in 1..MaxRetries
         /\ ReadyNow(ready.responses[Polls(ready.outcome)])

\* the same for calls all of whose polls were answered READY, CONNECTING,
\* SYNCING or stopped
DefiniteOnKnownAnswers ==
  (/\ ready.pc = "returned"
   /\ AllAnswered(ready.outcome)
   /\ \A i \in 1..Polls(ready.outcome) :
        KnownStatus(ready.responses[i]) \/ Stopped(ready.responses[i])) =>
    /\ ready.outcome.result \in {"true", "false"}
    /\ ready.outcome.result = "true" <=>
         /\ Polls(ready.outcome) \in 1..MaxRetries
         /\ ReadyNow(ready.responses[Polls(ready.outcome)])

\* C18: when an isWalletReady call did not return true, sendTokensToHathor
\* sends no mint-proposal request and no send-tx broadcast, and the proposal
\* handler of parseHathorLogs goes no further than the readiness calls.
C18_ReadinessChecked ==
  /\ (\E i \in DOMAIN sender.ready : sender.ready[i].result # "true")
       => sender.calls = <<>>
  /\ (\E i \in DOMAIN walletHandler.ready : walletHandler.ready[i] # "true")
       => \A i \in DOMAIN walletHandler.calls :
            walletHandler.calls[i] \in
              {"isWalletReady(true)", "isWalletReady(false)"}

\* the same, when both isWalletReady calls returned true or one of them
\* threw
ReadyOrThrown ==
  /\ (\E i \in DOMAIN sender.ready : sender.ready[i].result = "throws")
       => sender.calls = <<>>
  /\ sender.calls # <<>> => Len(sender.ready) = 2

(***************************************************************************)
(* Properties of wrapData and of the decoding                              *)
(***************************************************************************)
\* C19: decoding the data outputs wrapData produced for a payload under a
\* tag returns exactly the payload, for every payload length (0, 1, 145,
\* 146, and lengths that need 10 or more chunks).
C19_RoundTrip ==
  codec.pc = "decoded" => codec.decoded = Decoded("ok", codec.data)

\* the round trip of the payloads that need between 1 and 9 chunks
RoundTripUpToNineChunks ==
  (codec.pc = "decoded" /\ Len(codec.data) \in 1..(9 * 145))
    => codec.decoded = Decoded("ok", codec.data)

\* the text of the i-th (0-based) chunk of data
ChunkBody(data, i) ==
  LET last == IF 145 * (i + 1) < Len(data) THEN 145 * (i + 1) ELSE Len(data)
  IN [j \in 1..(last - 145 * i) |-> data[145 * i + j]]

\* the texts of chunks 0 .. n - 1 of data, one after the other
RECURSIVE ChunkBodies(_, _)
ChunkBodies(data, n) ==
  IF n = 0 THEN <<>> ELSE ChunkBodies(data, n - 1) \o ChunkBody(data, n - 1)

\* C20: wrapData(tag, data) emits exactly ceil(len(data) / 145) data
\* outputs; the i-th (0-based) is tag, i, total, data[145 i .. 145 (i + 1))
\* concatenated; every chunk body is non-empty and at most 145 characters;
\* the bodies in index order make up data.
C20_WrapData ==
  codec.pc \in {"wrapped", "decoded"} =>
    LET outputs == DataOutputs(codec.outputs)
        total == Len(outputs)
    IN /\ 145 * total >= Len(codec.data)
       /\ 145 * (total - 1) < Len(codec.data)
       /\ \A i \in 0..(total - 1) :
            /\ outputs[i + 1].data =
                 codec.tag \o toString(i) \o toString(total)
                   \o ChunkBody(codec.data, i)
            /\ Len(ChunkBody(codec.data, i)) \in 1..145
       /\ ChunkBodies(codec.data, total) = codec.data

C20_Witness ==
  /\ codec.pc = "wrapped"
  /\ Len(DataOutputs(codec.outputs)) = 11
  /\ Len(codec.data) = 10 * 145 + 1

(***************************************************************************)
(* Properties of HathorWallet's handler                                    *)
(***************************************************************************)
\* every run of HathorWallet's callback ends with exactly one of
\* message.ack() and message.nack(), and calls neither before it ends
WalletExactlyOneAckOrNack ==
  IF Done(walletHandler)
  THEN walletHandler.acks + walletHandler.nacks = 1
  ELSE walletHandler.acks + walletHandler.nacks = 0

\* once a signAndPushProposal call has returned without error, HathorWallet
\* issues no further one
WalletAtMostOneSignAndPush ==
  [][walletPushed => walletPushCalls' = walletPushCalls]_vars

====
